---- MODULE Spec2Model ----
(***************************************************************************)
(* The position estimator of SensorScope's Position page                   *)
(* (src/js/pages/position.js): dead reckoning from device motion and       *)
(* orientation samples, with bias calibration, low-pass and dead-zone       *)
(* conditioning, stillness detection, damping, ZUPT and bounded history.    *)
(*                                                                         *)
(* JavaScript numbers are doubles; the model computes in fixed point and    *)
(* rounds every division toward zero:                                      *)
(*   acceleration  1 unit = 0.01 m/s^2                                      *)
(*   time          1 unit = 1 ms                                            *)
(*   velocity      1 unit = 0.00001 m/s   (acceleration unit * ms)          *)
(*   position      1 unit = 0.00000001 m  (velocity unit * ms)              *)
(*   angle         1 unit = 0.001 rad                                       *)
(* An optional JavaScript value (null, or a number) is a sequence of        *)
(* length at most one: <<>> is null, <<n>> is the number n.                *)
(***************************************************************************)
EXTENDS Integers, Sequences, FiniteSets, TLC

\* ---- program constants (position.js lines 11-20), in model units ----
GRAVITY == 981
ACCEL_DEADZONE_XY == 40
ACCEL_DEADZONE_Z == 60
ZUPT_VELOCITY_THRESHOLD == 8000
ZUPT_ACCEL_THRESHOLD == 60
LP_ALPHA == 15
VELOCITY_DAMPING == 97
TRAIL_MAX == 500
ACCEL_BUFFER_SIZE == 20
CALIBRATION_SAMPLES == 50
\* literals of the motion callback and of _detectStillness
MAX_DT_MS == 500
TRAIL_INTERVAL_MS == 50
VARIANCE_THRESHOLD == 1000
PI_MILLI == 3142

\* ---- bounds of the model ----
\* last value of performance.now() a run of Spec reaches
MaxClock == 3850
\* first and last time at which the device may read a push instead of rest
PushFrom == 2500
PushUntil == 2600
\* period of the motion events in the long-session specification
LongDelta == 40
\* last value of performance.now() a run of SpecLong reaches
MaxClockLong == 42400
\* period of the motion events, last value of performance.now() and number
\* of frames in a run of SpecPage
PagePeriod == 50
MaxClockPage == 3000
MaxFrames == 3
\* last value of performance.now() a run of SpecStill reaches
MaxClockStill == 4500
\* last value of performance.now() a run of SpecTurn reaches, and the
\* number of samples it lets a calibration accumulate
MaxClockTurn == 250
MaxTurnSamples == 1

\* the session in which the page is opened and left lasts this long, in ms
MaxClockLife == 300

\* the session of the driven device lasts this long, in ms (a calibration
\* of 51 samples, 500 ms apart, and 19 samples after it), and until
\* BrakeUntil the device may also be driven backwards
MaxClockDrift == 35000
BrakeUntil == 29000

NULL == <<>>
Some(v) == <<v>>

Vec(a, b, c) == [x |-> a, y |-> b, z |-> c]
ZeroVec == Vec(0, 0, 0)

Abs(n) == IF n < 0 THEN -n ELSE n

\* division of a double, rounded toward zero on the fixed-point grid
Quot(a, b) == IF a >= 0 THEN a \div b ELSE -((-a) \div b)

RECURSIVE SumSeq(_)
SumSeq(s) == IF s = <<>> THEN 0 ELSE Head(s) + SumSeq(Tail(s))

\* floor of the square root
RECURSIVE IsqrtBetween(_, _, _)
IsqrtBetween(n, lo, hi) ==
    IF lo >= hi THEN lo
    ELSE LET mid == (lo + hi + 1) \div 2
         IN  IF mid * mid <= n THEN IsqrtBetween(n, mid, hi)
                               ELSE IsqrtBetween(n, lo, mid - 1)
Isqrt(n) == IsqrtBetween(n, 0, IF n < 46340 THEN n ELSE 46340)

VARIABLES
    pos,            \* this._pos
    vel,            \* this._vel
    filteredAccel,  \* this._filteredAccel
    lastTimestamp,  \* this._lastTimestamp: NULL or Some(ms)
    orientation,    \* this._orientation, in milliradians
    trail,          \* this._trail: sequence of [x, y, t]
    heightHistory,  \* this._heightHistory: sequence of [t, z]
    accelBuffer,    \* this._accelBuffer
    calibSamples,   \* this._calibSamples
    accelBias,      \* this._accelBias
    calibrating,    \* this._calibrating
    calibAccum,     \* this._calibAccum
    animId,         \* this._animId: NULL or Some(id of the frame requested)
    currentPage,    \* which page app._currentPage is: "none", "position", "other"
    motionHandler,  \* sensorManager._motionHandler is the page's handler
    motionListeners,       \* devicemotion listeners on window that call the page
    orientationHandler,    \* sensorManager._orientationHandler is the page's
    orientationListeners,  \* deviceorientation listeners that call the page
    frames,         \* animation frames of the page's loop requested and pending
    clock,          \* performance.now() at the latest event
    calibSeen       \* history: the set of world-frame accelerations the
                    \* calibration phase has accumulated since the last reset

estimator == <<pos, vel, filteredAccel, lastTimestamp, trail, heightHistory,
               accelBuffer, calibSamples, accelBias, calibrating, calibAccum>>

\* the application, the sensor manager and the browser around the page
page == <<currentPage, motionHandler, motionListeners, orientationHandler,
          orientationListeners, frames>>

vars == <<pos, vel, filteredAccel, lastTimestamp, orientation, trail,
          heightHistory, accelBuffer, calibSamples, accelBias,
          calibrating, calibAccum, animId, clock, calibSeen, page>>

\* ---- the orientation callback (position.js 149-155) ----

\* data.alpha || 0
OrZero(o) == IF o = NULL THEN 0 ELSE o[1]

\* mutant of ToRadians: the angle stored in degrees
ToRadiansIdentity(deg) == deg

\* degrees * Math.PI / 180
ToRadians(deg) == Quot(deg * PI_MILLI, 180)

\* Math.sin and Math.cos, exact on the quarter turns the model feeds
QuarterTurns(rad) == ((2 * rad + PI_MILLI \div 2) \div PI_MILLI) % 4
Sin(rad) == CASE QuarterTurns(rad) = 1 -> 1
              [] QuarterTurns(rad) = 3 -> -1
              [] OTHER -> 0
Cos(rad) == CASE QuarterTurns(rad) = 0 -> 1
              [] QuarterTurns(rad) = 2 -> -1
              [] OTHER -> 0

OrientationOf(data) ==
    [alpha |-> ToRadians(OrZero(data.alpha)),
     beta  |-> ToRadians(OrZero(data.beta)),
     gamma |-> ToRadians(OrZero(data.gamma))]

\* ---- the pieces of the motion callback (position.js 158-260) ----

\* now - this._lastTimestamp, in ms (dt is this over 1000)
DtOf(now, last) == now - last

\* mutants of DtRejected: the upper limit at 1 s; no upper limit
DtRejectedLate(dt) == dt <= 0 \/ dt > 2 * MAX_DT_MS
DtRejectedNoLimit(dt) == dt <= 0

\* dt <= 0 || dt > 0.5
DtRejected(dt) == dt <= 0 \/ dt > MAX_DT_MS

\* data.accelerationIncludingGravity.x ?? 0
Coalesce(o) == IF o = NULL THEN 0 ELSE o[1]

\* mutant of DeviceToWorld: the transposed matrix (world to device)
DeviceToWorldTransposed(ax, ay, az, o) ==
    LET sa == Sin(o.alpha)  ca == Cos(o.alpha)
        sb == Sin(o.beta)   cb == Cos(o.beta)
        sg == Sin(o.gamma)  cg == Cos(o.gamma)
    IN  Vec(ax * (ca * cg - sa * sb * sg) + ay * (sa * cg + ca * sb * sg) + az * (-cb * sg),
            ax * (-sa * cb) + ay * (ca * cb) + az * sb,
            ax * (ca * sg + sa * sb * cg) + ay * (sa * sg - ca * sb * cg) + az * (cb * cg))

\* _deviceToWorld: R = Rz(alpha) * Rx(beta) * Ry(gamma)
DeviceToWorld(ax, ay, az, o) ==
    LET sa == Sin(o.alpha)  ca == Cos(o.alpha)
        sb == Sin(o.beta)   cb == Cos(o.beta)
        sg == Sin(o.gamma)  cg == Cos(o.gamma)
    IN  Vec(ax * (ca * cg - sa * sb * sg) + ay * (-sa * cb) + az * (ca * sg + sa * sb * cg),
            ax * (sa * cg + ca * sb * sg) + ay * (ca * cb) + az * (sa * sg - ca * sb * cg),
            ax * (-cb * sg) + ay * sb + az * (cb * cg))

\* mutant of WorldAccel: gravity left in
WorldAccelKeepsGravity(data, o) ==
    DeviceToWorld(Coalesce(data.ax), Coalesce(data.ay), Coalesce(data.az), o)

\* the world-frame acceleration with gravity subtracted
WorldAccel(data, o) ==
    LET worldRaw == DeviceToWorld(Coalesce(data.ax), Coalesce(data.ay),
                                  Coalesce(data.az), o)
    IN  Vec(worldRaw.x, worldRaw.y, worldRaw.z - GRAVITY)

VecAdd(a, b) == Vec(a.x + b.x, a.y + b.y, a.z + b.z)
VecSub(a, b) == Vec(a.x - b.x, a.y - b.y, a.z - b.z)

\* mutant of CalibrationDone: one sample too many
CalibrationDoneLate(n) == n > CALIBRATION_SAMPLES

\* this._calibSamples >= CALIBRATION_SAMPLES
CalibrationDone(n) == n >= CALIBRATION_SAMPLES

\* mutant of BiasOf: the sum instead of the mean
BiasOfSum(accum, n) == accum

\* this._accelBias = this._calibAccum / this._calibSamples, per axis
BiasOf(accum, n) == Vec(Quot(accum.x, n), Quot(accum.y, n), Quot(accum.z, n))

\* LP_ALPHA * corrected + (1 - LP_ALPHA) * filtered, on one axis
\* mutant of LowPass: the two weights exchanged
LowPassSlow(c, f) ==
    Vec(Quot((100 - LP_ALPHA) * c.x + LP_ALPHA * f.x, 100),
        Quot((100 - LP_ALPHA) * c.y + LP_ALPHA * f.y, 100),
        Quot((100 - LP_ALPHA) * c.z + LP_ALPHA * f.z, 100))

LowPassAxis(c, f) == Quot(LP_ALPHA * c + (100 - LP_ALPHA) * f, 100)
LowPass(c, f) == Vec(LowPassAxis(c.x, f.x), LowPassAxis(c.y, f.y), LowPassAxis(c.z, f.z))

\* mutant of DeadZone: a value on the floor passes
DeadZoneInclusive(fa, floor) == IF Abs(fa) >= floor THEN fa ELSE 0

\* Math.abs(fa) > floor ? fa : 0
DeadZone(fa, floor) == IF Abs(fa) > floor THEN fa ELSE 0
\* effX, effY, effZ
Effective(fa) == Vec(DeadZone(fa.x, ACCEL_DEADZONE_XY),
                     DeadZone(fa.y, ACCEL_DEADZONE_XY),
                     DeadZone(fa.z, ACCEL_DEADZONE_Z))

\* Math.sqrt(fa.x * fa.x + fa.y * fa.y + fa.z * fa.z)
Magnitude(v) == Isqrt(v.x * v.x + v.y * v.y + v.z * v.z)

\* mutants of PushBounded: pop() instead of shift(); the shift one entry
\* early
PushBoundedDropsNewest(buf, e, cap) ==
    IF Len(buf) + 1 > cap THEN buf ELSE Append(buf, e)
PushBoundedEarly(buf, e, cap) ==
    IF Len(buf) + 1 >= cap THEN Tail(Append(buf, e)) ELSE Append(buf, e)

\* push(e), then shift() when the length exceeds cap
PushBounded(buf, e, cap) ==
    LET pushed == Append(buf, e)
    IN  IF Len(pushed) > cap THEN Tail(pushed) ELSE pushed

\* mutants of DetectStillness: the sum of the squared deviations, not
\* divided by the length, compared with 0.1; no test of the length
DetectStillnessSumOfSquares(buf) ==
    LET n == Len(buf)
        S == SumSeq(buf)
        dev == [i \in 1..n |-> (n * buf[i] - S) * (n * buf[i] - S)]
    IN  IF n < ACCEL_BUFFER_SIZE THEN FALSE
        ELSE /\ SumSeq(dev) < VARIANCE_THRESHOLD * n * n
             /\ S < ZUPT_ACCEL_THRESHOLD * n
DetectStillnessAnyLength(buf) ==
    LET n == Len(buf)
        S == SumSeq(buf)
        dev == [i \in 1..n |-> (n * buf[i] - S) * (n * buf[i] - S)]
    IN  /\ SumSeq(dev) < VARIANCE_THRESHOLD * n * n * n
        /\ S < ZUPT_ACCEL_THRESHOLD * n

\* _detectStillness: with n entries of sum S, variance < 0.1 is
\* sum((n*v - S)^2) < 0.1 * n^3 and mean < 0.6 is S < 0.6 * n
DetectStillness(buf) ==
    LET n == Len(buf)
        S == SumSeq(buf)
        dev == [i \in 1..n |-> (n * buf[i] - S) * (n * buf[i] - S)]
    IN  IF n < ACCEL_BUFFER_SIZE THEN FALSE
        ELSE /\ SumSeq(dev) < VARIANCE_THRESHOLD * n * n * n
             /\ S < ZUPT_ACCEL_THRESHOLD * n

\* mutant of Damp: the velocity is kept as it is
DampNothing(v) == v

\* this._vel += eff * dt, then this._vel *= VELOCITY_DAMPING
Damp(v) == Quot(v * VELOCITY_DAMPING, 100)
IntegrateVelocity(v, eff, dt) ==
    Vec(Damp(v.x + eff.x * dt), Damp(v.y + eff.y * dt), Damp(v.z + eff.z * dt))

\* Math.sqrt(v.x ** 2 + v.y ** 2 + v.z ** 2) < limit
MagnitudeBelow(v, limit) ==
    /\ Abs(v.x) < limit /\ Abs(v.y) < limit /\ Abs(v.z) < limit
    /\ v.x * v.x + v.y * v.y + v.z * v.z < limit * limit

\* mutant of ZuptFires: the velocity and acceleration thresholds ignored
ZuptFiresStillOnly(isStill, v, aMag) == isStill

\* isStill || (vMag < ZUPT_VELOCITY_THRESHOLD && aMag < ZUPT_ACCEL_THRESHOLD)
ZuptFires(isStill, v, aMag) ==
    isStill \/ (MagnitudeBelow(v, ZUPT_VELOCITY_THRESHOLD) /\ aMag < ZUPT_ACCEL_THRESHOLD)

\* this._pos += this._vel * dt
IntegratePosition(p, v, dt) == Vec(p.x + v.x * dt, p.y + v.y * dt, p.z + v.z * dt)

\* mutant of TrailDue: a trail point at every integrated sample
TrailDueAlways(tr, now) == TRUE

\* !lastTrail || (now - lastTrail.t) > 50
TrailDue(tr, now) == tr = <<>> \/ (now - tr[Len(tr)].t) > TRAIL_INTERVAL_MS

\* mutant of CalibrationPhase: the sample also runs through the low-pass
\* filter and the integrator (the return of line 197 missing)
CalibrationPhaseFallsThrough(w) ==
    LET accum == VecAdd(calibAccum, w)
        n == calibSamples + 1
        fa == LowPass(w, filteredAccel)
        v == IntegrateVelocity(vel, Effective(fa), 50)
    IN  /\ calibAccum' = accum
        /\ calibSamples' = n
        /\ calibSeen' = calibSeen \cup {w}
        /\ IF CalibrationDone(n)
           THEN /\ accelBias' = BiasOf(accum, n)
                /\ calibrating' = FALSE
           ELSE UNCHANGED <<accelBias, calibrating>>
        /\ filteredAccel' = fa
        /\ vel' = v
        /\ pos' = IntegratePosition(pos, v, 50)
        /\ UNCHANGED <<trail, heightHistory, accelBuffer>>

\* the calibration phase (186-198): the sample is consumed entirely
CalibrationPhase(w) ==
    LET accum == VecAdd(calibAccum, w)
        n == calibSamples + 1
    IN  /\ calibAccum' = accum
        /\ calibSamples' = n
        /\ calibSeen' = calibSeen \cup {w}
        /\ IF CalibrationDone(n)
           THEN /\ accelBias' = BiasOf(accum, n)
                /\ calibrating' = FALSE
           ELSE UNCHANGED <<accelBias, calibrating>>
        /\ UNCHANGED <<pos, vel, filteredAccel, trail, heightHistory, accelBuffer>>

\* mutant of ActivePhase: the height is recorded inside the trail throttle
ActivePhaseHeightThrottled(now, dt, w) ==
    LET fa == LowPass(VecSub(w, accelBias), filteredAccel)
        eff == Effective(fa)
        aMag == Magnitude(fa)
        buf == PushBounded(accelBuffer, aMag, ACCEL_BUFFER_SIZE)
        isStill == DetectStillness(buf)
        damped == IntegrateVelocity(vel, eff, dt)
        v == IF ZuptFires(isStill, damped, aMag) THEN ZeroVec ELSE damped
        p == IntegratePosition(pos, v, dt)
    IN  /\ filteredAccel' = fa
        /\ accelBuffer' = buf
        /\ vel' = v
        /\ pos' = p
        /\ IF TrailDue(trail, now)
           THEN /\ trail' = PushBounded(trail, [x |-> p.x, y |-> p.y, t |-> now], TRAIL_MAX)
                /\ heightHistory' = PushBounded(heightHistory, [t |-> now, z |-> p.z], TRAIL_MAX)
           ELSE UNCHANGED <<trail, heightHistory>>
        /\ UNCHANGED <<calibAccum, calibSamples, calibSeen, accelBias, calibrating>>

\* the active phase (200-259)
\* mutant of ActivePhase: the position is integrated before the zero-velocity
\* test
ActivePhasePositionFirst(now, dt, w) ==
    LET fa == LowPass(VecSub(w, accelBias), filteredAccel)
        eff == Effective(fa)
        aMag == Magnitude(fa)
        buf == PushBounded(accelBuffer, aMag, ACCEL_BUFFER_SIZE)
        isStill == DetectStillness(buf)
        damped == IntegrateVelocity(vel, eff, dt)
        v == IF ZuptFires(isStill, damped, aMag) THEN ZeroVec ELSE damped
        p == IntegratePosition(pos, damped, dt)
    IN  /\ filteredAccel' = fa
        /\ accelBuffer' = buf
        /\ vel' = v
        /\ pos' = p
        /\ trail' = IF TrailDue(trail, now)
                    THEN PushBounded(trail, [x |-> p.x, y |-> p.y, t |-> now], TRAIL_MAX)
                    ELSE trail
        /\ heightHistory' = PushBounded(heightHistory, [t |-> now, z |-> p.z], TRAIL_MAX)
        /\ UNCHANGED <<calibAccum, calibSamples, calibSeen, accelBias, calibrating>>

ActivePhase(now, dt, w) ==
    LET fa == LowPass(VecSub(w, accelBias), filteredAccel)
        eff == Effective(fa)
        aMag == Magnitude(fa)
        buf == PushBounded(accelBuffer, aMag, ACCEL_BUFFER_SIZE)
        isStill == DetectStillness(buf)
        damped == IntegrateVelocity(vel, eff, dt)
        v == IF ZuptFires(isStill, damped, aMag) THEN ZeroVec ELSE damped
        p == IntegratePosition(pos, v, dt)
    IN  /\ filteredAccel' = fa
        /\ accelBuffer' = buf
        /\ vel' = v
        /\ pos' = p
        /\ trail' = IF TrailDue(trail, now)
                    THEN PushBounded(trail, [x |-> p.x, y |-> p.y, t |-> now], TRAIL_MAX)
                    ELSE trail
        /\ heightHistory' = PushBounded(heightHistory, [t |-> now, z |-> p.z], TRAIL_MAX)
        /\ UNCHANGED <<calibAccum, calibSamples, calibSeen, accelBias, calibrating>>

\* ---- the operations ----

\* the estimator fields as the constructor sets them (28-43)
Constructed ==
    /\ pos = ZeroVec
    /\ vel = ZeroVec
    /\ filteredAccel = ZeroVec
    /\ lastTimestamp = NULL
    /\ trail = <<>>
    /\ heightHistory = <<>>
    /\ accelBuffer = <<>>
    /\ calibSamples = 0
    /\ accelBias = ZeroVec
    /\ calibrating = TRUE
    /\ calibAccum = ZeroVec

Init ==
    /\ Constructed
    /\ orientation = [alpha |-> 0, beta |-> 0, gamma |-> 0]
    /\ animId = NULL
    /\ currentPage = "none"
    /\ motionHandler = FALSE
    /\ motionListeners = 0
    /\ orientationHandler = FALSE
    /\ orientationListeners = 0
    /\ frames = 0
    /\ clock = 0
    /\ calibSeen = {}

\* the orientation callback
Orientation(data) ==
    /\ orientation' = OrientationOf(data)
    /\ UNCHANGED <<pos, vel, filteredAccel, lastTimestamp, trail, heightHistory,
                   accelBuffer, calibSamples, accelBias, calibrating,
                   calibAccum, animId, clock, calibSeen, page>>

\* mutant of Motion: a sample with a missing axis value only records its
\* timestamp
MotionSkipsPartial(now, data) ==
    /\ clock' = now
    /\ lastTimestamp' = Some(now)
    /\ UNCHANGED <<orientation, animId, page>>
    /\ IF \/ lastTimestamp = NULL
          \/ DtRejected(DtOf(now, lastTimestamp[1]))
          \/ data.ax = NULL \/ data.ay = NULL \/ data.az = NULL
       THEN UNCHANGED <<pos, vel, filteredAccel, trail, heightHistory, accelBuffer,
                        calibSamples, accelBias, calibrating, calibAccum, calibSeen>>
       ELSE IF calibrating
            THEN CalibrationPhase(WorldAccel(data, orientation))
            ELSE ActivePhase(now, DtOf(now, lastTimestamp[1]),
                             WorldAccel(data, orientation))

\* mutant of Motion: a rejected sample does not store its timestamp
MotionForgetsRejected(now, data) ==
    /\ clock' = now
    /\ UNCHANGED <<orientation, animId, page>>
    /\ IF lastTimestamp = NULL
       THEN /\ lastTimestamp' = Some(now)
            /\ UNCHANGED <<pos, vel, filteredAccel, trail, heightHistory, accelBuffer,
                           calibSamples, accelBias, calibrating, calibAccum, calibSeen>>
       ELSE IF DtRejected(DtOf(now, lastTimestamp[1]))
            THEN UNCHANGED <<lastTimestamp, pos, vel, filteredAccel, trail,
                             heightHistory, accelBuffer, calibSamples, accelBias,
                             calibrating, calibAccum, calibSeen>>
            ELSE /\ lastTimestamp' = Some(now)
                 /\ IF calibrating
                    THEN CalibrationPhase(WorldAccel(data, orientation))
                    ELSE ActivePhase(now, DtOf(now, lastTimestamp[1]),
                                     WorldAccel(data, orientation))

\* the motion callback, for a devicemotion event delivered at time now
Motion(now, data) ==
    /\ clock' = now
    /\ lastTimestamp' = Some(now)
    /\ UNCHANGED <<orientation, animId, page>>
    /\ IF lastTimestamp = NULL \/ DtRejected(DtOf(now, lastTimestamp[1]))
       THEN UNCHANGED <<pos, vel, filteredAccel, trail, heightHistory, accelBuffer,
                        calibSamples, accelBias, calibrating, calibAccum, calibSeen>>
       ELSE IF calibrating
            THEN CalibrationPhase(WorldAccel(data, orientation))
            ELSE ActivePhase(now, DtOf(now, lastTimestamp[1]),
                             WorldAccel(data, orientation))

\* mutant of Reset: the stored orientation is set back to flat
ResetFlattens ==
    /\ pos' = ZeroVec
    /\ vel' = ZeroVec
    /\ filteredAccel' = ZeroVec
    /\ lastTimestamp' = NULL
    /\ trail' = <<>>
    /\ heightHistory' = <<>>
    /\ accelBuffer' = <<>>
    /\ calibSamples' = 0
    /\ accelBias' = ZeroVec
    /\ calibrating' = TRUE
    /\ calibAccum' = ZeroVec
    /\ calibSeen' = {}
    /\ orientation' = [alpha |-> 0, beta |-> 0, gamma |-> 0]
    /\ UNCHANGED <<animId, clock, page>>

\* mutants of Reset: lastTimestamp kept; the bias kept; nothing to do
\* before the first sample
ResetKeepsTimestamp ==
    /\ pos' = ZeroVec
    /\ vel' = ZeroVec
    /\ filteredAccel' = ZeroVec
    /\ trail' = <<>>
    /\ heightHistory' = <<>>
    /\ accelBuffer' = <<>>
    /\ calibSamples' = 0
    /\ accelBias' = ZeroVec
    /\ calibrating' = TRUE
    /\ calibAccum' = ZeroVec
    /\ calibSeen' = {}
    /\ UNCHANGED <<lastTimestamp, orientation, animId, clock, page>>
ResetKeepsBias ==
    /\ pos' = ZeroVec
    /\ vel' = ZeroVec
    /\ filteredAccel' = ZeroVec
    /\ lastTimestamp' = NULL
    /\ trail' = <<>>
    /\ heightHistory' = <<>>
    /\ accelBuffer' = <<>>
    /\ calibSamples' = 0
    /\ calibrating' = TRUE
    /\ calibAccum' = ZeroVec
    /\ calibSeen' = {}
    /\ UNCHANGED <<accelBias, orientation, animId, clock, page>>
ResetAfterFirstSample ==
    /\ lastTimestamp # NULL
    /\ pos' = ZeroVec
    /\ vel' = ZeroVec
    /\ filteredAccel' = ZeroVec
    /\ lastTimestamp' = NULL
    /\ trail' = <<>>
    /\ heightHistory' = <<>>
    /\ accelBuffer' = <<>>
    /\ calibSamples' = 0
    /\ accelBias' = ZeroVec
    /\ calibrating' = TRUE
    /\ calibAccum' = ZeroVec
    /\ calibSeen' = {}
    /\ UNCHANGED <<orientation, animId, clock, page>>

\* _reset (this._startTime, which is written here and read nowhere, is left out)
Reset ==
    /\ pos' = ZeroVec
    /\ vel' = ZeroVec
    /\ filteredAccel' = ZeroVec
    /\ lastTimestamp' = NULL
    /\ trail' = <<>>
    /\ heightHistory' = <<>>
    /\ accelBuffer' = <<>>
    /\ calibSamples' = 0
    /\ accelBias' = ZeroVec
    /\ calibrating' = TRUE
    /\ calibAccum' = ZeroVec
    /\ calibSeen' = {}
    /\ UNCHANGED <<orientation, animId, clock, page>>

\* requestAnimationFrame returns the id of the request: one more at every
\* call
FrameId(id) == IF id = NULL THEN 1 ELSE id[1] + 1

\* mutant of Render: drawing the radar consumes the oldest trail point
RenderShiftsTrail ==
    /\ animId' = Some(FrameId(animId))
    /\ trail' = IF trail = <<>> THEN trail ELSE Tail(trail)
    /\ UNCHANGED <<pos, vel, filteredAccel, lastTimestamp, orientation,
                   heightHistory, accelBuffer, calibSamples, accelBias,
                   calibrating, calibAccum, clock, calibSeen, page>>

\* one frame of the render loop: _drawRadar, _drawHeight and _updateReadouts
\* read the trail, the height history and the position and write to the
\* canvases and the readouts only; the loop then requests the next frame
Render ==
    /\ animId' = Some(FrameId(animId))
    /\ UNCHANGED <<pos, vel, filteredAccel, lastTimestamp, orientation, trail,
                   heightHistory, accelBuffer, calibSamples, accelBias,
                   calibrating, calibAccum, clock, calibSeen, page>>

\* ---- the page's life cycle: the sensor manager's subscriptions, the
\* render loop and the application's router ----

\* what mount and unmount work on: the sensor manager's handler fields, the
\* listeners on window, the stored frame id and the pending frames
PageState ==
    [motionHandler |-> motionHandler, motionListeners |-> motionListeners,
     orientationHandler |-> orientationHandler,
     orientationListeners |-> orientationListeners,
     animId |-> animId, frames |-> frames]

\* startMotion: stores the handler and adds it to window, whatever was
\* stored before
StartMotion(p) ==
    [p EXCEPT !.motionHandler = TRUE, !.motionListeners = @ + 1]

\* stopMotion: removes the stored handler from window, if one is stored
StopMotion(p) ==
    IF p.motionHandler
    THEN [p EXCEPT !.motionHandler = FALSE, !.motionListeners = @ - 1]
    ELSE p

StartOrientation(p) ==
    [p EXCEPT !.orientationHandler = TRUE, !.orientationListeners = @ + 1]

StopOrientation(p) ==
    IF p.orientationHandler
    THEN [p EXCEPT !.orientationHandler = FALSE, !.orientationListeners = @ - 1]
    ELSE p

\* _startRendering: loop() runs at once, draws and requests the first frame
StartRendering(p) ==
    [p EXCEPT !.animId = Some(FrameId(@)), !.frames = @ + 1]

\* the first statement of unmount: the frame whose id is stored is cancelled
CancelFrame(p) ==
    IF p.animId # NULL
    THEN [p EXCEPT !.animId = NULL,
                   !.frames = IF @ > 0 THEN @ - 1 ELSE 0]
    ELSE p

\* mutant of UnmountOf: the motion subscription is left running
UnmountOfKeepsMotion(p) == StopOrientation(CancelFrame(p))

\* unmount
UnmountOf(p) == StopOrientation(StopMotion(CancelFrame(p)))

\* mount, after its _reset: _startSensors subscribes to orientation, then to
\* motion, and _startRendering starts the loop
MountOf(p) == StartRendering(StartMotion(StartOrientation(p)))

\* the _reset call of mount
ResetOnMount ==
    /\ pos' = ZeroVec
    /\ vel' = ZeroVec
    /\ filteredAccel' = ZeroVec
    /\ lastTimestamp' = NULL
    /\ trail' = <<>>
    /\ heightHistory' = <<>>
    /\ accelBuffer' = <<>>
    /\ calibSamples' = 0
    /\ accelBias' = ZeroVec
    /\ calibrating' = TRUE
    /\ calibAccum' = ZeroVec
    /\ calibSeen' = {}

SetPage(p) ==
    /\ motionHandler' = p.motionHandler
    /\ motionListeners' = p.motionListeners
    /\ orientationHandler' = p.orientationHandler
    /\ orientationListeners' = p.orientationListeners
    /\ animId' = p.animId
    /\ frames' = p.frames

\* _onRoute: the current page is unmounted, then the page the hash names is
\* mounted ("other" stands for the pages other than the position page: each
\* of them stops in its unmount the subscriptions its mount started, so the
\* sensor manager holds no handler of theirs when the next page is mounted)
OnRoute(to) ==
    LET left == IF currentPage = "position" THEN UnmountOf(PageState)
                                            ELSE PageState
    IN  /\ currentPage' = to
        /\ IF to = "position"
           THEN SetPage(MountOf(left)) /\ ResetOnMount
           ELSE /\ SetPage(left)
                /\ UNCHANGED <<pos, vel, filteredAccel, lastTimestamp, trail,
                               heightHistory, accelBuffer, calibSamples,
                               accelBias, calibrating, calibAccum, calibSeen>>
        /\ UNCHANGED <<orientation, clock>>

\* _remountCurrentPage, with the position page as the current page
RemountCurrentPage ==
    /\ currentPage = "position"
    /\ SetPage(MountOf(UnmountOf(PageState)))
    /\ ResetOnMount
    /\ UNCHANGED <<currentPage, orientation, clock>>

\* the application is started on the position page
Open == currentPage = "none" /\ OnRoute("position")

\* a click on the reset button, which is in the document while the page is
\* mounted
ResetClick == currentPage = "position" /\ Reset

\* ---- the environment ----

\* a device at rest whose z axis reads 0.1 m/s^2 too much, and the same
\* device pushed by 4 m/s^2 along x and z (one such push on a filter at rest
\* gives 0.15 * 4 = 0.6 m/s^2 on both axes: above the x dead zone, and
\* exactly on the z dead zone)
Rest == [ax |-> Some(0), ay |-> Some(0), az |-> Some(GRAVITY + 10)]
Push == [ax |-> Some(400), ay |-> Some(0), az |-> Some(GRAVITY + 410)]

\* what the accelerometer may read at time t
DeviceAccel(t) == IF PushFrom <= t /\ t <= PushUntil THEN {Rest, Push} ELSE {Rest}

\* time between two devicemotion events, in ms
Deltas == {0, 50, 500, 600}

OrientationInputs ==
    {[alpha |-> Some(0), beta |-> Some(0), gamma |-> Some(0)],
     [alpha |-> Some(90), beta |-> NULL, gamma |-> Some(0)]}

MotionEvent ==
    \E d \in Deltas :
        /\ motionListeners > 0
        /\ clock + d <= MaxClock
        /\ \E data \in DeviceAccel(clock + d) : Motion(clock + d, data)

OrientationEvent ==
    /\ orientationListeners > 0
    /\ \E data \in OrientationInputs : Orientation(data)

Next == Open \/ MotionEvent \/ OrientationEvent \/ ResetClick

Spec == Init /\ [][Next]_vars

\* ---- a long session: a steady stream of motion events, every LongDelta
\* ms, the orientation reported flat, and a reset only once the trail is
\* full ----

MotionLong ==
    /\ motionListeners > 0
    /\ clock + LongDelta <= MaxClockLong
    /\ \E data \in DeviceAccel(clock + LongDelta) : Motion(clock + LongDelta, data)

OrientationLong ==
    /\ orientationListeners > 0
    /\ Orientation([alpha |-> Some(0), beta |-> Some(0), gamma |-> Some(0)])

ResetLong == Len(trail) = TRAIL_MAX /\ ResetClick

NextLong == Open \/ MotionLong \/ OrientationLong \/ ResetLong

SpecLong == Init /\ [][NextLong]_vars

\* ---- the page with its render loop: a motion event every PagePeriod ms,
\* frames, orientation events and resets in any order; around the push
\* window the device may also deliver events in which axis values of
\* accelerationIncludingGravity are missing, or the whole reading is: the
\* sensor manager hands a missing value on as null ----

NoReading == [ax |-> NULL, ay |-> NULL, az |-> NULL]

PartialSamples ==
    {[ax |-> NULL, ay |-> Some(0), az |-> Some(GRAVITY + 10)],
     [ax |-> Some(400), ay |-> NULL, az |-> Some(GRAVITY + 410)],
     [ax |-> Some(400), ay |-> Some(0), az |-> NULL],
     NoReading}

PageAccel(t) == IF PushFrom <= t /\ t <= PushUntil
                THEN DeviceAccel(t) \cup PartialSamples
                ELSE DeviceAccel(t)

MotionPage ==
    /\ motionListeners > 0
    /\ clock + PagePeriod <= MaxClockPage
    /\ \E data \in PageAccel(clock + PagePeriod) : Motion(clock + PagePeriod, data)

RenderEvent == frames > 0 /\ FrameId(animId) <= MaxFrames /\ Render

NextPage == Open \/ MotionPage \/ OrientationEvent \/ ResetClick \/ RenderEvent

SpecPage == Init /\ [][NextPage]_vars

\* ---- a stationary device lying flat: every reading is exactly gravity
\* on z, the orientation is reported flat, the events come 50 ms or 500 ms
\* apart ----

Gravity == [ax |-> Some(0), ay |-> Some(0), az |-> Some(GRAVITY)]

StillDeltas == {50, 500}

MotionStill ==
    \E d \in StillDeltas :
        /\ motionListeners > 0
        /\ clock + d <= MaxClockStill
        /\ Motion(clock + d, Gravity)

NextStill == Open \/ MotionStill \/ OrientationLong \/ ResetClick

SpecStill == Init /\ [][NextStill]_vars

\* ---- a device turned by quarter turns about all three axes: the
\* orientation events report alpha in [0, 360), beta in [-180, 180) and
\* gamma in [-90, 90], the motion events come PagePeriod ms apart and read
\* gravity alone or a vector with three different components ----

TurnOrientations ==
    {[alpha |-> Some(a), beta |-> Some(b), gamma |-> Some(g)] :
        a \in {0, 90, 180, 270}, b \in {-90, 0, 90}, g \in {-90, 0, 90}}

TurnSamples ==
    {[ax |-> Some(0), ay |-> Some(0), az |-> Some(GRAVITY)],
     [ax |-> Some(100), ay |-> Some(200), az |-> Some(300)]}

MotionTurn ==
    /\ motionListeners > 0
    /\ clock + PagePeriod <= MaxClockTurn
    /\ calibSamples < MaxTurnSamples
    /\ \E data \in TurnSamples : Motion(clock + PagePeriod, data)

OrientationTurn ==
    /\ orientationListeners > 0
    /\ \E data \in TurnOrientations : Orientation(data)

NextTurn == Open \/ MotionTurn \/ OrientationTurn \/ ResetClick

SpecTurn == Init /\ [][NextTurn]_vars

\* ---- the page opened, left and reopened: route changes between the
\* position page and the other pages, remounts when the tab becomes visible
\* again, and a device that goes on sending motion and orientation events
\* every PagePeriod ms whether or not anything listens ----

\* window dispatches a devicemotion event to the listeners it has: with none
\* only the time passes; a second listener of the page would call the motion
\* callback again with the same timestamp, a call that is rejected for
\* dt = 0 and stores the timestamp it finds
MotionLife ==
    /\ clock + PagePeriod <= MaxClockLife
    /\ IF motionListeners > 0
       THEN \E data \in TurnSamples : Motion(clock + PagePeriod, data)
       ELSE /\ clock' = clock + PagePeriod
            /\ UNCHANGED <<pos, vel, filteredAccel, lastTimestamp, trail,
                           heightHistory, accelBuffer, calibSamples,
                           accelBias, calibrating, calibAccum, calibSeen,
                           orientation, animId, page>>

\* a frame that was requested and not cancelled runs the loop
FrameLife == frames > 0 /\ FrameId(animId) <= MaxFrames /\ Render

RouteLife == \E to \in {"position", "other"} : OnRoute(to)

NextLife ==
    \/ RouteLife
    \/ RemountCurrentPage
    \/ MotionLife
    \/ OrientationEvent
    \/ FrameLife
    \/ ResetClick

SpecLife == Init /\ [][NextLife]_vars

\* ---- a device driven along x: after a calibration at rest, every
\* reading shows 1 m/s^2 forwards, or at first backwards, on x, the events come
\* MAX_DT_MS apart, the longest time step that is accepted ----

Drive == [ax |-> Some(100), ay |-> Some(0), az |-> Some(GRAVITY + 10)]
Brake == [ax |-> Some(-100), ay |-> Some(0), az |-> Some(GRAVITY + 10)]

DriftAccel(t) == IF calibrating THEN {Rest}
                 ELSE IF t <= BrakeUntil THEN {Drive, Brake} ELSE {Drive}

MotionDrift ==
    /\ motionListeners > 0
    /\ clock + MAX_DT_MS <= MaxClockDrift
    /\ \E data \in DriftAccel(clock + MAX_DT_MS) : Motion(clock + MAX_DT_MS, data)

NextDrift == Open \/ MotionDrift \/ OrientationLong

SpecDrift == Init /\ [][NextDrift]_vars

\* ---- the claims ----

Last(s) == s[Len(s)]

\* the time step of the motion sample a step delivers, in ms
StepDt == clock' - lastTimestamp[1]

\* C1: a motion step changes position or velocity only if a previous
\* timestamp exists and 0 < dt <= 0.5 s; a sample with dt <= 0 or dt > 0.5 s
\* leaves both unchanged, and one with 0 < dt <= 0.5 s is accepted: it is
\* counted by the calibration or integrated.
C1_PosVelOnlyOnValidDt ==
    [][/\ (MotionEvent /\ (pos' # pos \/ vel' # vel))
            => (lastTimestamp # NULL /\ 0 < StepDt /\ StepDt <= 500)
       /\ (MotionEvent /\ lastTimestamp # NULL /\ 0 < StepDt /\ StepDt <= 500)
            => IF calibrating THEN calibSamples' = calibSamples + 1
                              ELSE heightHistory' # heightHistory]_vars

\* an Active-mode sample with dt of exactly 0.5 s was accepted and moved the
\* position
C1_Witness ==
    /\ Len(heightHistory) >= 2
    /\ lastTimestamp = Some(Last(heightHistory).t)
    /\ Last(heightHistory).t - heightHistory[Len(heightHistory) - 1].t = 500
    /\ Last(heightHistory).z # heightHistory[Len(heightHistory) - 1].z

\* C2 as stated: a motion sample rejected for dt <= 0 or dt > 0.5 s leaves the
\* whole estimator state, lastTimestamp included, unchanged.
C2_RejectedLeavesAllUnchanged ==
    [][(MotionEvent /\ lastTimestamp # NULL /\ (StepDt <= 0 \/ StepDt > 500))
         => UNCHANGED estimator]_vars

\* C2 amended: a rejected motion sample sets lastTimestamp to its own
\* timestamp and leaves every other estimator field unchanged.
C2_RejectedOnlyRecordsTimestamp ==
    [][(MotionEvent /\ lastTimestamp # NULL /\ (StepDt <= 0 \/ StepDt > 500))
         => /\ lastTimestamp' = Some(clock')
            /\ UNCHANGED <<pos, vel, filteredAccel, trail, heightHistory, accelBuffer,
                           calibSamples, accelBias, calibrating, calibAccum>>]_vars

\* the latest sample was rejected for dt > 0.5 s in Active mode, while moving
C2_Witness ==
    /\ ~calibrating
    /\ heightHistory # <<>>
    /\ lastTimestamp # NULL
    /\ lastTimestamp[1] - Last(heightHistory).t > 500
    /\ vel # ZeroVec
    /\ pos # ZeroVec

\* C3: reset clears lastTimestamp, and the first motion sample after
\* construction or reset records its timestamp and changes nothing else, so no
\* dt is computed against a timestamp from before the reset.
C3_FirstSampleOnlyRecords ==
    [][/\ Reset => lastTimestamp' = NULL
       /\ (MotionEvent /\ lastTimestamp = NULL)
            => /\ lastTimestamp' = Some(clock')
               /\ UNCHANGED <<pos, vel, filteredAccel, trail, heightHistory,
                              accelBuffer, calibSamples, accelBias, calibrating,
                              calibAccum, orientation>>]_vars

\* the first sample after a reset in the middle of a stream has been
\* recorded and nothing has been accumulated (a sample at 2700 ms is the
\* first one only after a reset: without one, the samples before it are
\* either accepted, and counted, or 600 ms apart)
C3_Witness ==
    /\ lastTimestamp = Some(2700)
    /\ calibSamples = 0
    /\ calibAccum = ZeroVec
    /\ calibSeen = {}

\* C4: the calibration count grows only by 1 and only in motion steps taken
\* while calibrating; the step to Active is the one in which the count
\* reaches CALIBRATION_SAMPLES; once Active, mode, bias, count and accumulator
\* stay as they are until the next reset.
C4_CalibrationCycle ==
    [][/\ calibSamples' # calibSamples
            => \/ Reset
               \/ MotionEvent /\ calibrating /\ calibSamples' = calibSamples + 1
       /\ (calibrating /\ ~calibrating')
            => MotionEvent /\ calibSamples = 49 /\ calibSamples' = 50
       /\ (calibrating /\ calibrating' /\ ~Reset) => calibSamples' < 50
       /\ (~calibrating /\ ~Reset)
            => /\ ~calibrating'
               /\ UNCHANGED <<accelBias, calibSamples, calibAccum>>]_vars

\* calibration completed and Active-mode samples have been integrated since
C4_Witness ==
    /\ ~calibrating
    /\ calibSamples = 50
    /\ Len(heightHistory) >= 3
    /\ vel # ZeroVec

\* C5: when every sample of a calibration had the same world-frame
\* acceleration v, then once Active the count is CALIBRATION_SAMPLES and the
\* bias is v on every axis.
C5_UniformCalibrationBias ==
    (~calibrating /\ Cardinality(calibSeen) = 1)
        => /\ calibSamples = 50
           /\ \A v \in calibSeen : accelBias = v

\* a calibration of identical non-zero samples has completed
C5_Witness ==
    /\ ~calibrating
    /\ calibSeen = {Vec(0, 0, 10)}
    /\ accelBias = Vec(0, 0, 10)

\* C6: a motion sample processed while calibrating leaves position,
\* velocity, filtered acceleration, the acceleration window, the trail and the
\* height history unchanged, and changes bias and mode only when it is the
\* sample that completes the calibration.
C6_CalibrationConsumesSample ==
    [][(MotionEvent /\ calibrating)
         => /\ UNCHANGED <<pos, vel, filteredAccel, accelBuffer, trail,
                           heightHistory, orientation>>
            /\ lastTimestamp' = Some(clock')
            /\ calibSamples' < 50 => UNCHANGED <<accelBias, calibrating>>]_vars

\* the completing sample has just been processed: Active, a non-zero bias,
\* and nothing integrated
C6_Witness ==
    /\ ~calibrating
    /\ calibSamples = 50
    /\ accelBias # ZeroVec
    /\ heightHistory = <<>>
    /\ pos = ZeroVec /\ vel = ZeroVec /\ filteredAccel = ZeroVec

\* what a bounded buffer keeps when one more entry is pushed
Kept(buf, cap) == IF Len(buf) < cap THEN buf ELSE Tail(buf)

\* a step that delivers an Active-mode motion sample with a valid time step
AcceptedActive ==
    /\ MotionEvent \/ MotionLong \/ MotionPage \/ MotionStill
    /\ ~calibrating
    /\ lastTimestamp # NULL
    /\ 0 < StepDt /\ StepDt <= 500

\* C7: the acceleration-magnitude window never holds more than
\* ACCEL_BUFFER_SIZE entries; each accepted Active-mode sample appends the
\* magnitude of its filtered acceleration and, when the window was full,
\* evicts the oldest one; nothing else changes the window but a reset, which
\* empties it. So a full window holds the magnitudes of the 20 most recent
\* accepted Active-mode samples, in arrival order.
C7_AccelWindowFifo ==
    /\ [](Len(accelBuffer) <= 20)
    /\ [][IF AcceptedActive
          THEN accelBuffer' = Append(Kept(accelBuffer, 20), Magnitude(filteredAccel'))
          ELSE accelBuffer' = accelBuffer \/ (Reset /\ accelBuffer' = <<>>)]_vars

\* the window is full, three entries have been evicted from it, and its
\* entries differ
C7_Witness ==
    /\ Len(accelBuffer) = 20
    /\ Len(heightHistory) >= 23
    /\ accelBuffer[1] # accelBuffer[2]
    /\ accelBuffer[1] # accelBuffer[20]

\* C8: the trail and the height history never hold more than TRAIL_MAX
\* entries; an append (to the height history on every accepted Active-mode
\* sample, to the trail on those that come more than 50 ms after its last
\* point) adds the new entry at the end and, when the sequence was full,
\* evicts the oldest entry; nothing else changes them but a reset, which
\* empties them.
C8_HistoryFifo ==
    /\ [](Len(trail) <= 500 /\ Len(heightHistory) <= 500)
    /\ [][/\ IF AcceptedActive
             THEN heightHistory' = Append(Kept(heightHistory, 500),
                                          [t |-> clock', z |-> pos'.z])
             ELSE heightHistory' = heightHistory \/ (Reset /\ heightHistory' = <<>>)
          /\ IF AcceptedActive /\ (trail = <<>> \/ clock' - Last(trail).t > 50)
             THEN trail' = Append(Kept(trail, 500),
                                  [x |-> pos'.x, y |-> pos'.y, t |-> clock'])
             ELSE trail' = trail \/ (Reset /\ trail' = <<>>)]_vars

\* both sequences are full and have evicted: in a long session the first
\* Active-mode sample, which opens both, comes at (CALIBRATION_SAMPLES + 2)
\* periods
C8_Witness ==
    /\ Len(trail) = 500
    /\ Len(heightHistory) = 500
    /\ trail[1].t > 52 * LongDelta
    /\ heightHistory[1].t > trail[1].t
    /\ trail[1].x # trail[500].x

\* C9: from any state, reset leaves every estimator field as the constructor
\* sets it: zero vectors, empty buffers, count 0, Calibrating, no timestamp.
C9_ResetRestoresInitial == [][Reset => Constructed']_vars

\* a reset has been taken late in a session: time has passed, the estimator
\* is as constructed
C9_Witness ==
    /\ Constructed
    /\ clock > 50 * 50
    /\ orientation.alpha # 0

\* a state in which reset changes no estimator field
ResetIsNoOp == ~ENABLED (Reset /\ estimator' # estimator)

\* C10: reset is enabled in every state, and a second reset right after a
\* reset changes nothing.
C10_ResetIdempotent ==
    /\ [](ENABLED Reset)
    /\ [][Reset => ResetIsNoOp']_vars

\* a reset taken from a state it changes
C10_Witness ==
    /\ ~calibrating
    /\ vel # ZeroVec
    /\ ENABLED (Reset /\ estimator' # estimator)

\* C11: in Active mode, once the acceleration window is full and each of its
\* 20 entries (the filtered-acceleration magnitudes of the 20 latest accepted
\* samples) is below 0.6 m/s^2, the velocity is exactly zero: 20 consecutive
\* accepted samples of low magnitude stop the velocity no later than at the
\* 20th.
C11_LowWindowStopsVelocity ==
    (/\ ~calibrating
     /\ Len(accelBuffer) = 20
     /\ \A i \in 1..20 : accelBuffer[i] < 60)
        => vel = ZeroVec

\* the window holds 20 low magnitudes, the velocity is zero, and the device
\* was still moving after the first of those 20 samples (each accepted
\* Active-mode sample adds one entry to the window and one to the height
\* history, so the 20th entry from the end of the height history is that
\* sample's)
C11_Witness ==
    /\ ~calibrating
    /\ Len(accelBuffer) = 20
    /\ \A i \in 1..20 : accelBuffer[i] < 60
    /\ vel = ZeroVec
    /\ Len(heightHistory) >= 21
    /\ lastTimestamp = Some(Last(heightHistory).t)
    /\ Last(heightHistory).t - heightHistory[Len(heightHistory) - 20].t = 20 * 50
    /\ heightHistory[Len(heightHistory) - 19].z # heightHistory[Len(heightHistory) - 20].z

\* population variance of a window below limit: mean of the squares minus
\* square of the mean, n * sum(v^2) - (sum v)^2 < limit * n^2
VarianceBelow(buf, limit) ==
    LET n == Len(buf)
        squares == [i \in 1..n |-> buf[i] * buf[i]]
    IN  n * SumSeq(squares) - SumSeq(buf) * SumSeq(buf) < limit * n * n

\* mean of a window below limit
MeanBelow(buf, limit) == SumSeq(buf) < limit * Len(buf)

\* C12: the stillness detector reports still exactly when the window holds
\* 20 entries, its population variance is below 0.1 (m/s^2)^2 and its mean
\* is below 0.6 m/s^2; the window never holds more than 20, and with fewer
\* than 20 entries the detector reports not still.
C12_StillIffFullQuietWindow ==
    /\ Len(accelBuffer) <= 20
    /\ DetectStillness(accelBuffer)
         <=> (/\ Len(accelBuffer) = 20
              /\ VarianceBelow(accelBuffer, 1000)
              /\ MeanBelow(accelBuffer, 60))
    /\ Len(accelBuffer) < 20 => ~DetectStillness(accelBuffer)

\* a full window whose mean is below 0.6 but whose variance is not below
\* 0.1: not still, and the device keeps its velocity
C12_Witness ==
    /\ Len(accelBuffer) = 20
    /\ MeanBelow(accelBuffer, 60)
    /\ ~VarianceBelow(accelBuffer, 1000)
    /\ ~DetectStillness(accelBuffer)
    /\ vel # ZeroVec

\* the velocity an accepted Active-mode step reaches by integration and
\* damping, before the zero-velocity update
DampedVelocity == IntegrateVelocity(vel, Effective(filteredAccel'), StepDt)

\* the window after the step makes the detector report still
StillAfterStep ==
    /\ Len(accelBuffer') = 20
    /\ VarianceBelow(accelBuffer', 1000)
    /\ MeanBelow(accelBuffer', 60)

\* the damped velocity is below 0.08 m/s and the filtered acceleration below
\* 0.6 m/s^2, in magnitude
SlowAndQuiet ==
    /\ Abs(DampedVelocity.x) < 8000
    /\ Abs(DampedVelocity.y) < 8000
    /\ Abs(DampedVelocity.z) < 8000
    /\ DampedVelocity.x * DampedVelocity.x + DampedVelocity.y * DampedVelocity.y
          + DampedVelocity.z * DampedVelocity.z < 8000 * 8000
    /\ Magnitude(filteredAccel') < 60

\* C13: an accepted Active-mode sample leaves the velocity at exactly zero if
\* the detector reports still or the damped velocity is below 0.08 m/s with
\* the filtered acceleration below 0.6 m/s^2, and at its integrated and
\* damped value otherwise.
C13_ZeroVelocityUpdate ==
    [][AcceptedActive
         => vel' = IF StillAfterStep \/ SlowAndQuiet THEN ZeroVec
                                                     ELSE DampedVelocity]_vars

\* the velocity has been zeroed by the threshold rule alone: the window is
\* not full, the filtered acceleration is not zero, and the device had moved
C13_Witness ==
    /\ ~calibrating
    /\ vel = ZeroVec
    /\ pos # ZeroVec
    /\ accelBuffer # <<>>
    /\ Len(accelBuffer) < 20
    /\ Last(accelBuffer) < 60
    /\ Abs(filteredAccel.x) > 30
    /\ lastTimestamp = Some(Last(heightHistory).t)

\* C14: an accepted Active-mode step with timestamp t appends the trail
\* point {x, y, t} if and only if the trail is empty or t is at least 50 ms
\* after the timestamp of the last trail point; a step exactly 50 ms after
\* the last trail point appends one.
C14_TrailAppendsFromFiftyMs ==
    [][AcceptedActive
         => ((trail = <<>> \/ clock' - Last(trail).t >= 50)
               <=> trail' = Append(Kept(trail, 500),
                                   [x |-> pos'.x, y |-> pos'.y, t |-> clock']))]_vars

\* C15: every accepted Active-mode step appends exactly one entry to the
\* height history, {timestamp of the sample, position z after the step},
\* whether or not the trail takes a point and whether or not the velocity
\* was zeroed; a motion sample that is rejected, that is the first after a
\* reset, or that is consumed by the calibration appends none.
C15_HeightOnEveryIntegration ==
    [][(MotionEvent \/ MotionLong)
         => IF AcceptedActive
            THEN /\ Len(heightHistory') = Len(Kept(heightHistory, 500)) + 1
                 /\ SubSeq(heightHistory', 1, Len(heightHistory') - 1)
                      = Kept(heightHistory, 500)
                 /\ Last(heightHistory') = [t |-> clock', z |-> pos'.z]
            ELSE heightHistory' = heightHistory]_vars

\* the latest accepted step zeroed the velocity and gave the trail no point,
\* and the height history has its entry, at a height the device had reached
C15_Witness ==
    /\ ~calibrating
    /\ Len(heightHistory) >= 3
    /\ Last(heightHistory) = [t |-> clock, z |-> pos.z]
    /\ trail # <<>>
    /\ Last(trail).t < clock
    /\ Len(trail) < Len(heightHistory)
    /\ vel = ZeroVec
    /\ pos.z # 0
    /\ heightHistory[Len(heightHistory) - 1].z # heightHistory[Len(heightHistory) - 2].z

\* what one axis adds to the velocity in a step: its filtered acceleration
\* times dt when the magnitude exceeds the floor, and nothing otherwise
Contribution(fa, floor, dt) == IF fa > floor \/ fa < -floor THEN fa * dt ELSE 0

\* C16: on every accepted Active-mode sample an axis adds to the velocity
\* only if its filtered acceleration exceeds its noise floor in magnitude
\* (0.4 m/s^2 for x and y, 0.6 m/s^2 for z) and adds exactly zero otherwise,
\* so the velocity after the step is the damped sum, or zero when the
\* zero-velocity update fired; the magnitude pushed into the window is that
\* of the stored filtered acceleration, floors not applied.
C16_DeadZonePerAxis ==
    [][AcceptedActive
         => /\ \/ vel' = ZeroVec
               \/ vel' = Vec(Quot((vel.x + Contribution(filteredAccel'.x, 40, StepDt)) * 97, 100),
                             Quot((vel.y + Contribution(filteredAccel'.y, 40, StepDt)) * 97, 100),
                             Quot((vel.z + Contribution(filteredAccel'.z, 60, StepDt)) * 97, 100))
            /\ Last(accelBuffer') = Isqrt(filteredAccel'.x * filteredAccel'.x
                                           + filteredAccel'.y * filteredAccel'.y
                                           + filteredAccel'.z * filteredAccel'.z)]_vars

\* a filtered acceleration of exactly 0.6 m/s^2 on x and on z: x, above its
\* floor, has moved the velocity; z, on its floor, has not; the window got
\* the magnitude of both
C16_Witness ==
    /\ ~calibrating
    /\ filteredAccel = Vec(60, 0, 60)
    /\ vel.x > 0
    /\ vel.z = 0
    /\ accelBuffer # <<>>
    /\ Last(accelBuffer) = 84

\* C17: an orientation sample stores its three angles in radians (0 degrees
\* as 0, 90 degrees as 1.571 rad, a missing angle as 0), whatever was stored
\* before, and changes nothing else: the estimator fields stay as they are,
\* at any point of the stream of motion samples and resets; and nothing but
\* an orientation sample changes the stored angles.
C17_OrientationOnlySetsAngles ==
    [][(OrientationEvent \/ orientation' # orientation)
         => /\ orientation' \in {[alpha |-> 0, beta |-> 0, gamma |-> 0],
                                 [alpha |-> 1571, beta |-> 0, gamma |-> 0]}
            /\ UNCHANGED <<pos, vel, filteredAccel, lastTimestamp, trail,
                           heightHistory, accelBuffer, calibSamples, accelBias,
                           calibrating, calibAccum>>]_vars

\* the orientation changed between two Active-mode motion samples: the
\* device was pushed along its x axis, which was the world's x axis at one
\* push and the world's y axis at another, and kept its velocity
C17_Witness ==
    /\ ~calibrating
    /\ orientation = [alpha |-> 1571, beta |-> 0, gamma |-> 0]
    /\ accelBias = Vec(0, 0, 10)
    /\ filteredAccel.x > 40
    /\ filteredAccel.y > 40
    /\ vel.x > 0
    /\ vel.y > 0

\* C18: a frame of the render loop leaves every estimator field as it is
\* (position, velocity, filtered acceleration, bias, calibration count and
\* accumulator, mode, last timestamp, acceleration window, trail and height
\* history), and the orientation too, wherever it falls between motion
\* samples, orientation samples and resets.
C18_RenderLeavesEstimator ==
    [][RenderEvent
         => UNCHANGED <<pos, vel, filteredAccel, accelBias, calibSamples,
                        calibAccum, calibrating, lastTimestamp, accelBuffer,
                        trail, heightHistory, orientation>>]_vars

\* frames have been drawn while the device was moving in Active mode, with
\* a trail and a height history to draw
C18_Witness ==
    /\ animId = Some(MaxFrames)
    /\ ~calibrating
    /\ vel # ZeroVec
    /\ trail # <<>>
    /\ Len(heightHistory) >= 2
    /\ clock < MaxClockPage

\* a sample with 0 in the place of every missing axis value
Filled(data) ==
    [ax |-> IF data.ax = NULL THEN Some(0) ELSE data.ax,
     ay |-> IF data.ay = NULL THEN Some(0) ELSE data.ay,
     az |-> IF data.az = NULL THEN Some(0) ELSE data.az]

\* C19: a step that processes a motion sample with missing axis values is
\* exactly the step that processes the same sample with 0 for the missing
\* values, and the other way round; with a valid time step the sample is
\* not rejected: the calibration counts it or it is integrated.
C19_MissingAxisAsZero ==
    [][\A data \in PartialSamples :
          /\ Motion(clock', data) <=> Motion(clock', Filled(data))
          /\ (Motion(clock', data) /\ lastTimestamp # NULL
                 /\ 0 < StepDt /\ StepDt <= 500)
               => IF calibrating
                  THEN calibSamples' = calibSamples + 1
                  ELSE Len(heightHistory') = Len(heightHistory) + 1]_vars

\* an Active-mode sample without its z value has been integrated as one
\* with z = 0: pushed along x, and gravity missing on z
C19_Witness ==
    /\ ~calibrating
    /\ accelBias = Vec(0, 0, 10)
    /\ filteredAccel = Vec(60, 0, -148)
    /\ Len(heightHistory) = 1
    /\ vel.z < 0
    /\ pos.z < 0

\* C20: with the orientation flat and every motion sample {0, 0, 9.81},
\* delivered with valid time steps, velocity and position are zero in every
\* reachable state, and the bias is zero once the calibration has
\* completed.
C20_StationaryStaysAtOrigin ==
    /\ vel = ZeroVec
    /\ pos = ZeroVec
    /\ ~calibrating => accelBias = ZeroVec

\* the device has been Active for more samples than the stillness window
\* holds, some of them 500 ms apart
C20_Witness ==
    /\ ~calibrating
    /\ calibSamples = 50
    /\ accelBias = ZeroVec
    /\ Len(accelBuffer) = 20
    /\ Len(heightHistory) > 20
    /\ Len(trail) > 1
    /\ \E i \in 1..(Len(heightHistory) - 1) :
           heightHistory[i + 1].t - heightHistory[i].t = 500

\* sine and cosine of the quarter turns, by value
SinOf(rad) == CASE rad = 1571 -> 1
                [] rad = -1571 \/ rad = 4713 -> -1
                [] OTHER -> 0
CosOf(rad) == CASE rad = 0 -> 1
                [] rad = 3142 \/ rad = -3142 -> -1
                [] OTHER -> 0

\* the elementary rotations, as 3 x 3 matrices (tuples of rows)
Rz(a) == <<<<CosOf(a), -SinOf(a), 0>>, <<SinOf(a), CosOf(a), 0>>, <<0, 0, 1>>>>
Rx(b) == <<<<1, 0, 0>>, <<0, CosOf(b), -SinOf(b)>>, <<0, SinOf(b), CosOf(b)>>>>
Ry(g) == <<<<CosOf(g), 0, SinOf(g)>>, <<0, 1, 0>>, <<-SinOf(g), 0, CosOf(g)>>>>

MatMul(A, B) ==
    [i \in 1..3 |-> [j \in 1..3 |-> A[i][1] * B[1][j] + A[i][2] * B[2][j] + A[i][3] * B[3][j]]]

MatVec(A, v) ==
    Vec(A[1][1] * v[1] + A[1][2] * v[2] + A[1][3] * v[3],
        A[2][1] * v[1] + A[2][2] * v[2] + A[2][3] * v[3],
        A[3][1] * v[1] + A[3][2] * v[2] + A[3][3] * v[3])

\* R * a for R = Rz(alpha) * Rx(beta) * Ry(gamma)
Rotated(o, a) == MatVec(MatMul(Rz(o.alpha), MatMul(Rx(o.beta), Ry(o.gamma))), a)

\* C21: the frame transform returns R * a, R = Rz(alpha) * Rx(beta) *
\* Ry(gamma), for the device vector a of the sample and the stored angles
\* (quarter turns; a itself for the angles {0, 0, 0}): a calibration sample
\* adds R * a, less gravity on z, to the accumulator; and the motion step
\* that calls the transform leaves the orientation as it is.
C21_FrameTransform ==
    [][\A data \in TurnSamples :
          (Motion(clock', data) /\ lastTimestamp # NULL /\ calibrating)
            => /\ VecSub(calibAccum', calibAccum)
                    = VecSub(Rotated(orientation, <<data.ax[1], data.ay[1], data.az[1]>>),
                             Vec(0, 0, 981))
               /\ orientation = [alpha |-> 0, beta |-> 0, gamma |-> 0]
                    => VecSub(calibAccum', calibAccum)
                         = Vec(data.ax[1], data.ay[1], data.az[1] - 981)
               /\ orientation' = orientation
               /\ UNCHANGED <<pos, vel, filteredAccel, trail, heightHistory,
                              accelBuffer>>]_vars

\* a sample (1, 2, 3) m/s^2 has been accumulated with the device turned by
\* 90 degrees about each axis: R * a = (-1, 3, 2)
C21_Witness ==
    /\ orientation = [alpha |-> 1571, beta |-> 1571, gamma |-> 1571]
    /\ calibSamples = 1
    /\ calibAccum = Vec(-100, 300, 200 - 981)

\* C22: while the position page is not the mounted page, no listener of it
\* is on window and no frame of its loop is pending, and no step taken from
\* the unmount until the next mount changes an estimator field, the stored
\* orientation or the frame id (a render tick would store a new one);
\* whatever routes, remounts, events and resets came before.
C22_UnmountedPageIsInert ==
    /\ [](currentPage # "position"
            => /\ motionListeners = 0
               /\ orientationListeners = 0
               /\ frames = 0
               /\ animId = NULL)
    /\ [][(currentPage # "position" /\ currentPage' # "position")
            => UNCHANGED <<pos, vel, filteredAccel, lastTimestamp, trail,
                           heightHistory, accelBuffer, calibSamples,
                           accelBias, calibrating, calibAccum, orientation,
                           animId>>]_vars

\* the page was left with a calibration under way and a turned device, and
\* the device has sent two more motion events since
C22_Witness ==
    /\ currentPage = "other"
    /\ calibSamples >= 2
    /\ orientation.alpha # 0
    /\ lastTimestamp # NULL
    /\ clock >= lastTimestamp[1] + 2 * PagePeriod

\* (v + e * dt) * 0.97: the velocity integrated first and damped second
IntegratedThenDamped(v, e, dt) == Quot((v + e * dt) * 97, 100)

\* C23: in an accepted Active-mode step the velocity is integrated, then
\* damped, then tested for the zero-velocity update, and the position
\* advances by the velocity that results, times dt: the new velocity is zero
\* or the integrated and then damped one, the position moves by the new
\* velocity times dt on every axis, and stays where it is when the velocity
\* was set to zero.
C23_ActiveStepOrder ==
    [][AcceptedActive
         => /\ \/ vel' = ZeroVec
               \/ vel' = Vec(IntegratedThenDamped(vel.x, Effective(filteredAccel').x, StepDt),
                             IntegratedThenDamped(vel.y, Effective(filteredAccel').y, StepDt),
                             IntegratedThenDamped(vel.z, Effective(filteredAccel').z, StepDt))
            /\ pos'.x - pos.x = vel'.x * StepDt
            /\ pos'.y - pos.y = vel'.y * StepDt
            /\ pos'.z - pos.z = vel'.z * StepDt
            /\ vel' = ZeroVec => pos' = pos]_vars

\* the device had moved, and the latest sample, an accepted one, set the
\* velocity to zero and left the position where the trail last recorded it
C23_Witness ==
    /\ ~calibrating
    /\ vel = ZeroVec
    /\ pos.x # 0
    /\ trail # <<>>
    /\ heightHistory # <<>>
    /\ lastTimestamp = Some(Last(heightHistory).t)
    /\ Last(trail).t < Last(heightHistory).t
    /\ Last(trail).x = pos.x

\* 0.15 * (w - b) + 0.85 * f on one axis
Smoothed(w, b, f) == Quot(15 * (w - b) + 85 * f, 100)

\* the filtered acceleration an accepted Active-mode sample must leave: the
\* raw vector rotated into the world frame, less 9.81 on z, less the bias,
\* mixed with the filtered acceleration before the step
FilteredAfter(data) ==
    LET r == Rotated(orientation, <<data.ax[1], data.ay[1], data.az[1]>>)
    IN  Vec(Smoothed(r.x, accelBias.x, filteredAccel.x),
            Smoothed(r.y, accelBias.y, filteredAccel.y),
            Smoothed(r.z - 981, accelBias.z, filteredAccel.z))

\* C24: an accepted Active-mode sample sets the filtered acceleration to
\* 0.15 * (worldAccel - bias) + 0.85 * filteredAccel, worldAccel being the
\* rotated raw vector with 9.81 taken from z; a step that changes the
\* filtered acceleration is such a sample or a reset, so rejected samples,
\* first samples, calibration samples and orientation events leave it.
C24_LowPassOnAcceptedActive ==
    [][/\ AcceptedActive
            => \A data \in DeviceAccel(clock') :
                   Motion(clock', data) => filteredAccel' = FilteredAfter(data)
       /\ filteredAccel' # filteredAccel => (AcceptedActive \/ Reset)]_vars

\* the filter has mixed a push along device x taken flat with one taken
\* after a quarter turn about z
C24_Witness ==
    /\ ~calibrating
    /\ filteredAccel.x > 0
    /\ filteredAccel.y # 0
    /\ orientation.alpha = 1571

\* the largest effective acceleration of the driven device, in 0.01 m/s^2:
\* the filtered acceleration stays within the readings, which are 1 m/s^2
DriveLimit == Abs(Drive.ax[1])

\* |v| <= 0.97 * A * 0.5 / (1 - 0.97), for v in 1e-5 m/s and A in 0.01 m/s^2
WithinDampingBound(v, A) == Abs(v) * 3 <= 97 * A * 500

\* |v'| <= 0.97 * (|v| + |e| * 0.5): the step of which the bound is the
\* fixed point
DampedStep(v, e, w) == Abs(w) * 100 <= 97 * (Abs(v) + Abs(e) * 500)

C26_RejectedDoesNotBlock ==
    /\ [](lastTimestamp # NULL => lastTimestamp = Some(clock))
    /\ [][/\ (MotionEvent /\ lastTimestamp # NULL
                /\ (clock' - lastTimestamp[1] <= 0 \/ clock' - lastTimestamp[1] > 500))
               => lastTimestamp' = Some(clock')
          /\ (MotionEvent /\ lastTimestamp # NULL
                /\ 0 < clock' - clock /\ clock' - clock <= 500)
               => IF calibrating
                  THEN calibSamples' = calibSamples + 1
                  ELSE /\ Len(heightHistory') = Len(heightHistory) + 1
                       /\ Last(heightHistory').t = clock']_vars

\* in Active mode a sample was dropped for coming 600 ms after the one
\* before it, and the sample 50 ms after the dropped one was integrated
C26_Witness ==
    /\ ~calibrating
    /\ Len(heightHistory) >= 2
    /\ Last(heightHistory).t = clock
    /\ Last(heightHistory).t - heightHistory[Len(heightHistory) - 1].t = 650
    /\ vel # ZeroVec

\* C27: while the page is calibrating, the position, the velocity, the
\* filtered acceleration and the bias are zero vectors and the acceleration
\* window, the trail and the height history are empty.
C27_CalibratingIsBlank ==
    calibrating
      => /\ pos = ZeroVec
         /\ vel = ZeroVec
         /\ filteredAccel = ZeroVec
         /\ accelBias = ZeroVec
         /\ accelBuffer = <<>>
         /\ trail = <<>>
         /\ heightHistory = <<>>

\* a calibration is under way after a reset of a page whose trail was full
\* (in the long session only such a page is reset, and the first calibration
\* is over after 51 samples): samples have been counted again, and their
\* sum, from which the bias will be taken, is not zero
C27_Witness ==
    /\ calibrating
    /\ calibSamples >= 2
    /\ calibAccum # ZeroVec
    /\ clock > (CALIBRATION_SAMPLES + 1) * LongDelta + TRAIL_MAX * LongDelta

\* C28: the calibration count is between 0 and CALIBRATION_SAMPLES, and the
\* page is calibrating exactly when the count is below CALIBRATION_SAMPLES.
C28_CountDecidesMode ==
    /\ calibSamples \in 0..50
    /\ calibrating <=> calibSamples < 50

\* the count has reached 50 and stayed there while Active-mode samples were
\* integrated
C28_Witness ==
    /\ calibSamples = CALIBRATION_SAMPLES
    /\ ~calibrating
    /\ Len(heightHistory) >= 3

\* consecutive trail entries are more than 50 ms apart
TrailSpaced == \A i \in 1..(Len(trail) - 1) : trail[i + 1].t - trail[i].t > 50

\* the timestamps of the height history increase strictly
HeightIncreasing ==
    \A i \in 1..(Len(heightHistory) - 1) : heightHistory[i + 1].t > heightHistory[i].t

\* the trail entry i has its timestamp in the height history
InHeightHistory(i) ==
    \E j \in 1..Len(heightHistory) : heightHistory[j].t = trail[i].t

\* C29 as stated: in every reachable state consecutive trail entries are
\* more than 50 ms apart, the height-history timestamps increase strictly,
\* and every trail timestamp appears as a height-history timestamp.
C29_TrailStampsInHeightHistory ==
    /\ TrailSpaced
    /\ HeightIncreasing
    /\ \A i \in 1..Len(trail) : InHeightHistory(i)

\* C29 amended: consecutive trail entries are more than 50 ms apart, the
\* height-history timestamps increase strictly, every step that appends a
\* trail entry appends a height-history entry with the same timestamp, and
\* a trail timestamp appears in the height history as long as it is not
\* older than the oldest entry the height history still holds.
C29_TrailStampsUntilEvicted ==
    /\ [](/\ TrailSpaced
          /\ HeightIncreasing
          /\ \A i \in 1..Len(trail) :
                 (heightHistory # <<>> /\ trail[i].t >= heightHistory[1].t)
                    => InHeightHistory(i)
          /\ trail # <<>> => heightHistory # <<>>)
    /\ [][(trail' # trail /\ trail' # <<>>)
            => /\ Last(trail').t = clock'
               /\ heightHistory' # heightHistory
               /\ Last(heightHistory').t = clock']_vars

\* the height history has evicted the entries of the oldest trail points
\* and holds those of the newest
C29_Witness ==
    /\ Len(trail) >= 2
    /\ heightHistory # <<>>
    /\ trail[1].t < heightHistory[1].t
    /\ Last(trail).t = Last(heightHistory).t

Flat == [alpha |-> 0, beta |-> 0, gamma |-> 0]

\* C30: the page starts with the angles {0, 0, 0} and only an orientation
\* event changes them, so a motion sample that comes before any orientation
\* event is processed with them: the calibration counts it and adds the raw
\* vector itself, less gravity on z; a reset leaves the stored angles, and
\* the samples after it are rotated by them.
C30_OrientationBeforeAndAfterReset ==
    /\ orientation = Flat
    /\ [][(Open \/ MotionTurn \/ Reset) => orientation' = orientation]_vars
    /\ [][\A data \in TurnSamples :
            (Motion(clock', data) /\ lastTimestamp # NULL)
              => /\ calibSamples' = calibSamples + 1
                 /\ calibAccum'.x - calibAccum.x
                      = Rotated(orientation, <<data.ax[1], data.ay[1], data.az[1]>>).x
                 /\ calibAccum'.y - calibAccum.y
                      = Rotated(orientation, <<data.ax[1], data.ay[1], data.az[1]>>).y
                 /\ calibAccum'.z - calibAccum.z
                      = Rotated(orientation, <<data.ax[1], data.ay[1], data.az[1]>>).z - 981
                 /\ orientation = Flat
                      => /\ calibAccum'.x - calibAccum.x = data.ax[1]
                         /\ calibAccum'.y - calibAccum.y = data.ay[1]
                         /\ calibAccum'.z - calibAccum.z = data.az[1] - 981]_vars

\* a sample (1, 2, 3) m/s^2 has been accumulated after a reset (a second
\* sample is counted in this session only after one), with the device
\* turned by 90 degrees about x alone: R * a = (1, -3, 2)
C30_Witness ==
    /\ clock > 2 * PagePeriod
    /\ lastTimestamp = Some(clock)
    /\ orientation = [alpha |-> 0, beta |-> 1571, gamma |-> 0]
    /\ calibSamples = 1
    /\ calibAccum = Vec(100, -300, 200 - 981)

====
